---- MODULE Spec2Model ----
\* One-directional reconciliation of an ICS feed into a CalDAV collection:
\* extraction, diff and the concurrent upload/delete phases of sync_calendar
\* (src/src/lib.rs, src/src/nextcloud/api.rs, src/src/nextcloud/utils.rs) and
\* the self-contained command-line program (src/src/main.rs).
\*   Spec           runs of the library's sync_calendar
\*   SpecMain       runs of the command-line program of main.rs
\*   SpecApi        handle_uploads and handle_deletes called on their own
\*   SpecInterrupt  runs that may be killed during a phase
\*   SpecExtract    extract_events on source and target documents
\*   SpecOrder      the two phases with the response of every item fixed
\*   SpecLive       one run under fair scheduling
\*   SpecPurge      delete_synced_events
EXTENDS Integers, Sequences, FiniteSets, TLC

\* ------------------------------------------------------------------ bounds
MaxSrc == 2      \* components in the source feed
MaxRuns == 2     \* consecutive sync runs

\* ------------------------------------------------------------ Option<T>
None == {}
Some(x) == {x}
Unwrap(o) == CHOOSE x \in o : TRUE

\* ------------------------------------------------------------ strings
\* A string is a sequence of one-character strings.
Unreserved == {"a", "b", "-", "_", ".", "~", "2", "5", "F"}

\* urlencoding::encode on one character: unreserved characters are kept,
\* every other byte becomes %XX.
EncodeChar(c) ==
    IF c \in Unreserved THEN <<c>>
    ELSE IF c = "/" THEN <<"%", "2", "F">>
    ELSE IF c = "%" THEN <<"%", "2", "5">>
    ELSE <<"%", "2", "0">>

RECURSIVE encode(_)
encode(s) ==
    IF s = <<>> THEN <<>> ELSE EncodeChar(Head(s)) \o encode(Tail(s))

StartsWith(s, p) ==
    /\ Len(s) >= Len(p)
    /\ SubSeq(s, 1, Len(p)) = p

\* str::replace: non-overlapping matches, left to right.
RECURSIVE replace(_, _, _)
replace(s, from, to) ==
    IF s = <<>> THEN <<>>
    ELSE IF StartsWith(s, from)
         THEN to \o replace(SubSeq(s, Len(from) + 1, Len(s)), from, to)
         ELSE <<Head(s)>> \o replace(Tail(s), from, to)

\* ------------------------------------------------------------ events
\* icalendar::Event, reduced to the properties the program reads or writes:
\* UID, LAST-MODIFIED and X-SYNCED.
get_uid(event) == event.uid
get_last_modified(event) == event.lm
IsSynced(event) == event.synced

MkEvent(uid, lm, synced) == [kind |-> "event", uid |-> uid, lm |-> lm, synced |-> synced]
OtherComponent == [kind |-> "other"]

\* main.rs: the command-line program's own process_event (no X-SYNCED).
main_process_event(event) ==
    IF get_uid(event) # None
    THEN [event EXCEPT !.uid = Some(replace(encode(Unwrap(get_uid(event))), <<"%", "2", "F">>, <<"-">>))]
    ELSE event

process_event_no_marker(event) ==
    IF get_uid(event) # None
    THEN [event EXCEPT !.uid = Some(replace(encode(Unwrap(get_uid(event))), <<"%", "2", "F">>, <<"-">>))]
    ELSE event

process_event_keep_uid(event) ==
    IF get_uid(event) # None THEN [event EXCEPT !.synced = TRUE] ELSE event

\* utils.rs: the UID is percent-encoded, every %2F becomes -, and X-SYNCED is
\* added; an event without UID is returned as it is.
process_event(event) ==
    IF get_uid(event) # None
    THEN [event EXCEPT !.uid = Some(replace(encode(Unwrap(get_uid(event))), <<"%", "2", "F">>, <<"-">>)),
                       !.synced = TRUE]
    ELSE event

\* ------------------------------------------------------------ event sets
EmptyMap == [k \in {} |-> {}]
Insert(m, k, v) == [x \in (DOMAIN m) \cup {k} |-> IF x = k THEN v ELSE m[x]]

RECURSIVE extract_events_always_process(_, _)
extract_events_always_process(calendar, process_events) ==
    IF calendar = <<>> THEN EmptyMap
    ELSE LET n == Len(calendar)
             rest == extract_events_always_process(SubSeq(calendar, 1, n - 1), process_events)
             component == calendar[n]
         IN IF component.kind = "event"
            THEN LET event == process_event(component)
                 IN IF get_uid(event) # None
                    THEN Insert(rest, Unwrap(get_uid(event)), event)
                    ELSE rest
            ELSE rest

\* filter_map over the components, collected into a HashMap: a later entry
\* with the same key replaces an earlier one.
RECURSIVE extract_events(_, _)
extract_events(calendar, process_events) ==
    IF calendar = <<>> THEN EmptyMap
    ELSE LET n == Len(calendar)
             rest == extract_events(SubSeq(calendar, 1, n - 1), process_events)
             component == calendar[n]
         IN IF component.kind = "event"
            THEN LET event == IF process_events THEN process_event(component) ELSE component
                 IN IF get_uid(event) # None
                    THEN Insert(rest, Unwrap(get_uid(event)), event)
                    ELSE rest
            ELSE rest

should_skip_never(source_event, existing_event) == FALSE

should_skip_eq_option(source_event, existing_event) ==
    get_last_modified(source_event) = get_last_modified(existing_event)

should_skip(source_event, existing_event) ==
    IF get_last_modified(source_event) # None /\ get_last_modified(existing_event) # None
    THEN Unwrap(get_last_modified(source_event)) = Unwrap(get_last_modified(existing_event))
    ELSE FALSE

get_synced_uids_all(events) == DOMAIN events

get_synced_uids_inverted(events) == {uid \in DOMAIN events : ~IsSynced(events[uid])}

get_synced_uids(events) == {uid \in DOMAIN events : IsSynced(events[uid])}

RECURSIVE DiffLoop_push_existing(_, _, _, _)
DiffLoop_push_existing(order, source_events, nextcloud_events, acc) ==
    IF order = <<>> THEN acc
    ELSE LET uid == Head(order)
             removed == [acc EXCEPT !.del = @ \ {uid}]
         IN IF uid \in DOMAIN nextcloud_events
            THEN IF should_skip(source_events[uid], nextcloud_events[uid])
                 THEN DiffLoop_push_existing(Tail(order), source_events, nextcloud_events,
                                             [removed EXCEPT !.skipped = @ \cup {uid}])
                 ELSE DiffLoop_push_existing(Tail(order), source_events, nextcloud_events,
                                             [removed EXCEPT !.upload = Append(@, nextcloud_events[uid])])
            ELSE DiffLoop_push_existing(Tail(order), source_events, nextcloud_events,
                                        [removed EXCEPT !.upload = Append(@, source_events[uid])])

\* The loop of calculate_diff over the source map in iteration order `order`
\* (a HashMap iterates in an arbitrary order).
RECURSIVE DiffLoop(_, _, _, _)
DiffLoop(order, source_events, nextcloud_events, acc) ==
    IF order = <<>> THEN acc
    ELSE LET uid == Head(order)
             source_event == source_events[uid]
             removed == [acc EXCEPT !.del = @ \ {uid}]
         IN IF uid \in DOMAIN nextcloud_events
               /\ should_skip(source_event, nextcloud_events[uid])
            THEN DiffLoop(Tail(order), source_events, nextcloud_events,
                          [removed EXCEPT !.skipped = @ \cup {uid}])
            ELSE DiffLoop(Tail(order), source_events, nextcloud_events,
                          [removed EXCEPT !.upload = Append(@, source_event)])

calculate_diff_keep_stale(order, source_events, nextcloud_events) ==
    [DiffLoop(order, source_events, nextcloud_events,
              [upload |-> <<>>, del |-> get_synced_uids(nextcloud_events), skipped |-> {}])
     EXCEPT !.del = get_synced_uids(nextcloud_events)]

calculate_diff_no_skip(order, source_events, nextcloud_events) ==
    [DiffLoop(order, source_events, nextcloud_events,
              [upload |-> <<>>, del |-> get_synced_uids(nextcloud_events), skipped |-> {}])
     EXCEPT !.upload = [i \in DOMAIN order |-> source_events[order[i]]]]

calculate_diff_push_twice(order, source_events, nextcloud_events) ==
    [DiffLoop(order, source_events, nextcloud_events,
              [upload |-> <<>>, del |-> get_synced_uids(nextcloud_events), skipped |-> {}])
     EXCEPT !.upload = @ \o @]

calculate_diff(order, source_events, nextcloud_events) ==
    DiffLoop(order, source_events, nextcloud_events,
             [upload |-> <<>>, del |-> get_synced_uids(nextcloud_events), skipped |-> {}])

Perms(S) == {p \in [1..Cardinality(S) -> S] : \A i, j \in 1..Cardinality(S) : i # j => p[i] # p[j]}


\* ------------------------------------------------------------ inputs
\* LAST-MODIFIED instants are only compared for equality.
Instants == {"T1", "T2"}
Timestamps == {None} \cup {Some(t) : t \in Instants}
SrcUids == {Some(<<"a">>), Some(<<"/">>)}
SrcComponents ==
    {MkEvent(u, lm, FALSE) : u \in SrcUids, lm \in Timestamps}
        \cup {MkEvent(None, None, FALSE), OtherComponent}
TgtKeys == {<<"a">>, <<"-">>}
Statuses == {200, 201, 204, 404}

SeqsUpTo(S, n) == UNION {[1..k -> S] : k \in 0..n}

\* ------------------------------------------------------------ state
VARIABLES
    source,            \* the parsed source feed (a Calendar: sequence of components)
    server,            \* the target collection: resource URL -> stored event
    pc,                \* position of the run
    run,               \* number of the current run
    source_events,     \* sync_calendar: source_events
    nextcloud_events,  \* sync_calendar: nextcloud_events
    events_to_upload,  \* sync_calendar: events_to_upload
    uids_to_delete,    \* sync_calendar: uids_to_delete
    skipLog,           \* UIDs logged as "Skipping unchanged event"
    upRes,             \* outcome of each upload task
    delOrder,          \* the delete tasks, in the iteration order of the set
    delRes,            \* outcome of each delete task
    putLog,            \* PUT requests of this run: [uid, url]
    deleteLog,         \* DELETE requests of this run: [uid, url]
    result,            \* None while running or on success, Some(error) on failure
    previous,          \* outcome of the previous run ("none" in the first run)
    response,          \* handle_uploads / handle_deletes called on their own:
                       \* the response the last task received
    server0,           \* where the responses are fixed beforehand: the target
                       \* collection as it was when the phases began
    plan               \* the response the server has for each PUT and DELETE,
                       \* where the responses are fixed beforehand

vars == <<source, server, pc, run, source_events, nextcloud_events, events_to_upload,
          uids_to_delete, skipLog, upRes, delOrder, delRes, putLog, deleteLog, result, previous,
          response, server0, plan>>

inputVars == <<source, run, previous, response, server0, plan>>
diffVars == <<source_events, nextcloud_events, events_to_upload, uids_to_delete, skipLog>>

Pending == [st |-> "pending", code |-> 0]
Succeeded == [st |-> "ok", code |-> 0]
BadStatus(uid, s, body) == [st |-> "status", code |-> s, uid |-> uid, body |-> body]
TransportError == [st |-> "transport", code |-> 0]
MissingUid == [st |-> "nouid", code |-> 0]

Remove(m, k) == [x \in (DOMAIN m) \ {k} |-> m[x]]

\* The export of the collection, as the sequence of its events.
RECURSIVE Export(_)
Export(m) ==
    IF DOMAIN m = {} THEN <<>>
    ELSE LET k == CHOOSE x \in DOMAIN m : TRUE
         IN <<m[k]>> \o Export(Remove(m, k))

\* A response of the server is its status and its body; NoResponse stands for
\* a request whose send failed.
Bodies == {<<>>, <<"e">>}
Responses == [status : Statuses, body : Bodies]
NoResponse == [status |-> 0, body |-> <<>>]
\* The sync runs are explored with one body for every status.
RunResponses == {r \in Responses : r.body = <<"e">>} \cup {NoResponse}
NoPlan == [put |-> <<>>, del |-> <<>>]
NoExchange == [phase |-> "none", task |-> 0, status |-> 0, body |-> <<>>]
Exchange(phase, i, resp) ==
    [phase |-> phase, task |-> i, status |-> resp.status, body |-> resp.body]

\* Config: the server, and the calendar collection on it.
nextcloud_url == <<"h">>
nextcloud_calendar_url == nextcloud_url \o <<"/">>

upload_url(base_url, uid) == base_url \o uid \o <<".ics">>

delete_url_no_suffix(base_url, uid) == base_url \o uid

delete_url(base_url, uid) == base_url \o uid \o <<".ics">>

\* The path of a resource, as the server reports it in a multistatus href.
Href(url) == SubSeq(url, Len(nextcloud_url) + 1, Len(url))
main_delete_url(host, href) == host \o href

\* The collection that stores each event of m under <collection><key>.ics.
Stored(m) ==
    [url \in {nextcloud_calendar_url \o k \o <<".ics">> : k \in DOMAIN m} |->
        LET k == CHOOSE x \in DOMAIN m : nextcloud_calendar_url \o x \o <<".ics">> = url
        IN [m[k] EXCEPT !.uid = Some(k)]]

Servers ==
    UNION {[K -> {MkEvent(None, lm, sy) : lm \in Timestamps, sy \in BOOLEAN}] : K \in SUBSET TgtKeys}

Init ==
    /\ source \in SeqsUpTo(SrcComponents, MaxSrc)
    /\ \E m \in Servers : server = Stored(m)
    /\ pc = "Idle"
    /\ run = 1
    /\ source_events = EmptyMap
    /\ nextcloud_events = EmptyMap
    /\ events_to_upload = <<>>
    /\ uids_to_delete = {}
    /\ skipLog = {}
    /\ upRes = <<>>
    /\ delOrder = <<>>
    /\ delRes = <<>>
    /\ putLog = {}
    /\ deleteLog = {}
    /\ result = None
    /\ previous = "none"
    /\ server0 = EmptyMap
    /\ plan = NoPlan
    /\ response = NoExchange

\* ------------------------------------------------------------ a sync run
\* The caller starts fetching the two documents.
BeginRun ==
    /\ pc = "Idle"
    /\ pc' = "Extracting"
    /\ UNCHANGED <<inputVars, server, diffVars, upRes, delOrder, delRes, putLog, deleteLog, result>>

\* The ways a download can go wrong: the document is not delivered (the send
\* fails, the status is not a success, the body cannot be read) or what is
\* delivered is not a calendar (not UTF-8, or rejected by the parser).
FetchFailures == {"fetch", "parse"}

fetch_and_parse_calendar_lenient(doc, outcome) == None

\* The error fetch_and_parse_calendar returns for this outcome, if any.
fetch_and_parse_calendar(doc, outcome) ==
    IF outcome = "ok" THEN None
    ELSE Some([phase |-> "fetch", uid |-> None, cause |-> [st |-> outcome, code |-> 0],
               doc |-> doc])

\* The download of the source or of the target export goes wrong; main
\* returns the error (the ? operator) before sync_calendar is called.
FetchFail ==
    /\ pc = "Extracting"
    /\ \E doc \in {"source", "target"}, outcome \in FetchFailures :
         /\ response' = [phase |-> doc, task |-> 0, status |-> 0, body |-> <<outcome>>]
         /\ result' = fetch_and_parse_calendar(doc, outcome)
    /\ pc' = IF result' # None THEN "Failed" ELSE "Diffing"
    /\ UNCHANGED <<source, run, previous, server0, plan, server, diffVars, upRes, delOrder, delRes,
                   putLog, deleteLog>>

\* Both documents were fetched and parsed; sync_calendar extracts the two sets.
Extract ==
    /\ pc = "Extracting"
    /\ source_events' = extract_events(source, TRUE)
    /\ nextcloud_events' = extract_events(Export(server), FALSE)
    /\ pc' = "Diffing"
    /\ UNCHANGED <<inputVars, server, events_to_upload, uids_to_delete, skipLog,
                   upRes, delOrder, delRes, putLog, deleteLog, result>>

\* calculate_diff, then the upload phase is entered: handle_uploads spawns one
\* task per event (none when events_to_upload is empty).
Diff ==
    /\ pc = "Diffing"
    /\ \E order \in Perms(DOMAIN source_events) :
         LET d == calculate_diff(order, source_events, nextcloud_events)
         IN /\ events_to_upload' = d.upload
            /\ uids_to_delete' = d.del
            /\ skipLog' = d.skipped
            /\ upRes' = [i \in 1..Len(d.upload) |-> Pending]
    /\ pc' = "Uploading"
    /\ UNCHANGED <<inputVars, server, source_events, nextcloud_events,
                   delOrder, delRes, putLog, deleteLog, result>>

IsUploadSuccess_ok_created(s) == s \in {200, 201}

IsUploadSuccess(s) == s \in {200, 201, 204}

IsDeleteSuccess_any_2xx(s) == s \in {200, 201, 204}

IsDeleteSuccess(s) == s \in {200, 204}

\* The outcome of an upload task whose PUT got this response.
upload_result(uid, resp) ==
    IF resp = NoResponse THEN TransportError
    ELSE IF IsUploadSuccess(resp.status) THEN Succeeded
    ELSE BadStatus(uid, resp.status, resp.body)

\* The outcome of a delete task whose DELETE got this response.
delete_result(uid, resp) ==
    IF resp = NoResponse THEN TransportError
    ELSE IF IsDeleteSuccess(resp.status) THEN Succeeded
    ELSE BadStatus(uid, resp.status, resp.body)

UploadStep_unwrap_or_default(i, resp) ==
    /\ i \in DOMAIN upRes
    /\ upRes[i] = Pending
    /\ LET event == events_to_upload[i]
           uid == IF get_uid(event) = None THEN <<>> ELSE Unwrap(get_uid(event))
           url == upload_url(nextcloud_calendar_url, uid)
       IN /\ putLog' = putLog \cup {[uid |-> uid, url |-> url]}
          /\ upRes' = [upRes EXCEPT ![i] = upload_result(uid, resp)]
          /\ server' = IF upload_result(uid, resp) = Succeeded
                        THEN Insert(server, url, event)
                        ELSE server
    /\ UNCHANGED <<source, run, previous, server0, plan, pc, diffVars, delOrder, delRes, deleteLog, result>>

\* One spawned upload task of handle_uploads: PUT <base><uid>.ics, answered by
\* resp. The task is detached (tokio::spawn): it runs until it settles,
\* wherever its caller is.
UploadStep(i, resp) ==
    /\ i \in DOMAIN upRes
    /\ upRes[i] = Pending
    /\ LET event == events_to_upload[i]
       IN IF get_uid(event) = None
          THEN /\ upRes' = [upRes EXCEPT ![i] = MissingUid]
               /\ UNCHANGED <<server, putLog>>
          ELSE LET uid == Unwrap(get_uid(event))
                   url == upload_url(nextcloud_calendar_url, uid)
               IN /\ putLog' = putLog \cup {[uid |-> uid, url |-> url]}
                  /\ upRes' = [upRes EXCEPT ![i] = upload_result(uid, resp)]
                  /\ server' = IF upload_result(uid, resp) = Succeeded
                                THEN Insert(server, url, event)
                                ELSE server
    /\ UNCHANGED <<source, run, previous, server0, plan, pc, diffVars, delOrder, delRes, deleteLog, result>>

UploadTask(i) == \E resp \in RunResponses : UploadStep(i, resp) /\ UNCHANGED response

AllSettled(res) == \A i \in DOMAIN res : res[i] # Pending
Failing(res) == {i \in DOMAIN res : res[i] \notin {Pending, Succeeded}}
FirstFailing(res) == CHOOSE i \in Failing(res) : \A j \in Failing(res) : i <= j

JoinReady_fail_fast(res) == AllSettled(res) \/ Failing(res) # {}

JoinReady_no_wait(res) == TRUE

JoinReady_all_ok(res) == AllSettled(res) /\ Failing(res) = {}

\* try_join_all over the JoinHandles: resolves when every task has finished.
JoinReady(res) == AllSettled(res)

CollectError_ignore(phase, uids, res) == None

\* .into_iter().collect::<Result<()>>(): the first Err in task order.
CollectError(phase, uids, res) ==
    IF Failing(res) = {} THEN None
    ELSE LET i == FirstFailing(res)
         IN Some([phase |-> phase, uid |-> uids[i], cause |-> res[i]])

UploadUids == [i \in DOMAIN events_to_upload |-> get_uid(events_to_upload[i])]
DeleteUids == [i \in DOMAIN delOrder |-> Some(delOrder[i])]

handle_deletes_uids_all_synced == get_synced_uids(nextcloud_events)

\* The set sync_calendar passes to handle_deletes.
handle_deletes_uids == uids_to_delete

\* handle_uploads returns; on success sync_calendar enters the delete phase
\* and handle_deletes spawns one task per UID of uids_to_delete.
JoinUploads ==
    /\ pc = "Uploading"
    /\ JoinReady(upRes)
    /\ LET e == CollectError("upload", UploadUids, upRes)
       IN IF e # None
          THEN /\ pc' = "Failed"
               /\ result' = e
               /\ UNCHANGED <<delOrder, delRes>>
          ELSE /\ pc' = "Deleting"
               /\ \E order \in Perms(handle_deletes_uids) :
                    /\ delOrder' = order
                    /\ delRes' = [i \in DOMAIN order |-> Pending]
               /\ UNCHANGED result
    /\ UNCHANGED <<inputVars, server, diffVars, upRes, putLog, deleteLog>>

\* One spawned delete task of handle_deletes: DELETE <base><uid>.ics, answered
\* by resp.
DeleteStep(i, resp) ==
    /\ i \in DOMAIN delRes
    /\ delRes[i] = Pending
    /\ LET uid == delOrder[i]
           url == delete_url(nextcloud_calendar_url, uid)
       IN /\ deleteLog' = deleteLog \cup {[uid |-> uid, url |-> url]}
          /\ delRes' = [delRes EXCEPT ![i] = delete_result(uid, resp)]
          /\ server' = IF delete_result(uid, resp) = Succeeded
                        THEN Remove(server, url)
                        ELSE server
    /\ UNCHANGED <<source, run, previous, server0, plan, pc, diffVars, upRes, delOrder, putLog, result>>

DeleteTask(i) == \E resp \in RunResponses : DeleteStep(i, resp) /\ UNCHANGED response

\* handle_deletes returns and sync_calendar returns.
JoinDeletes ==
    /\ pc = "Deleting"
    /\ JoinReady(delRes)
    /\ LET e == CollectError("delete", DeleteUids, delRes)
       IN IF e # None
          THEN /\ pc' = "Failed"
               /\ result' = e
          ELSE /\ pc' = "Done"
               /\ UNCHANGED result
    /\ UNCHANGED <<inputVars, server, diffVars, upRes, delOrder, delRes, putLog, deleteLog>>

\* The program is started again on the same feed.
NextRun ==
    /\ pc \in {"Done", "Failed", "Interrupted"}
    /\ run < MaxRuns
    /\ run' = run + 1
    /\ previous' = pc
    /\ pc' = "Idle"
    /\ source_events' = EmptyMap
    /\ nextcloud_events' = EmptyMap
    /\ events_to_upload' = <<>>
    /\ uids_to_delete' = {}
    /\ skipLog' = {}
    /\ upRes' = <<>>
    /\ delOrder' = <<>>
    /\ delRes' = <<>>
    /\ putLog' = {}
    /\ deleteLog' = {}
    /\ result' = None
    /\ response' = NoExchange
    /\ UNCHANGED <<source, server, server0, plan>>

Next ==
    \/ BeginRun
    \/ FetchFail
    \/ Extract
    \/ Diff
    \/ \E i \in 1..MaxSrc : UploadTask(i)
    \/ JoinUploads
    \/ \E i \in 1..Cardinality(TgtKeys) : DeleteTask(i)
    \/ JoinDeletes
    \/ NextRun

Spec == Init /\ [][Next]_vars

\* The process is killed while a phase is under way. The requests that have
\* been answered have taken effect on the server; the tasks that have not
\* settled die with the process, and nothing the run held in memory is left.
Interrupt ==
    /\ pc \in {"Uploading", "Deleting"}
    /\ pc' = "Interrupted"
    /\ source_events' = EmptyMap
    /\ nextcloud_events' = EmptyMap
    /\ events_to_upload' = <<>>
    /\ uids_to_delete' = {}
    /\ skipLog' = {}
    /\ upRes' = <<>>
    /\ delOrder' = <<>>
    /\ delRes' = <<>>
    /\ putLog' = {}
    /\ deleteLog' = {}
    /\ UNCHANGED <<inputVars, server, result>>

\* Recovery is explored on a server that answers every request it receives
\* with a success: a request that fails leaves the server as a request that
\* was never sent does, which the interruption already covers.
UploadTaskOk(i) ==
    \E resp \in {r \in RunResponses : IsUploadSuccess(r.status)} :
        UploadStep(i, resp) /\ UNCHANGED response

DeleteTaskOk(i) ==
    \E resp \in {r \in RunResponses : IsDeleteSuccess(r.status)} :
        DeleteStep(i, resp) /\ UNCHANGED response

NextInterrupt ==
    \/ BeginRun
    \/ Extract
    \/ Diff
    \/ \E i \in 1..MaxSrc : UploadTaskOk(i)
    \/ JoinUploads
    \/ \E i \in 1..Cardinality(TgtKeys) : DeleteTaskOk(i)
    \/ JoinDeletes
    \/ NextRun
    \/ Interrupt

SpecInterrupt == Init /\ [][NextInterrupt]_vars


\* ------------------------------------------------- the command-line program
\* main.rs carries its own copies of the functions; its sync_calendar differs
\* from the library's in the diff (no ownership filter), in process_event (no
\* marker) and in handle_deletes (the resource is looked up by a REPORT).
RECURSIVE main_extract_events(_, _)
main_extract_events(calendar, process_events) ==
    IF calendar = <<>> THEN EmptyMap
    ELSE LET n == Len(calendar)
             rest == main_extract_events(SubSeq(calendar, 1, n - 1), process_events)
             component == calendar[n]
         IN IF component.kind = "event"
            THEN LET event == IF process_events THEN main_process_event(component) ELSE component
                 IN IF get_uid(event) # None
                    THEN Insert(rest, Unwrap(get_uid(event)), event)
                    ELSE rest
            ELSE rest

\* The diff written inline in main.rs sync_calendar.
main_sync_diff(order, src, tgt) ==
    DiffLoop(order, src, tgt, [upload |-> <<>>, del |-> DOMAIN tgt, skipped |-> {}])

MainExtract ==
    /\ pc = "Extracting"
    /\ source_events' = main_extract_events(source, TRUE)
    /\ nextcloud_events' = main_extract_events(Export(server), FALSE)
    /\ pc' = "Diffing"
    /\ UNCHANGED <<inputVars, server, events_to_upload, uids_to_delete, skipLog,
                   upRes, delOrder, delRes, putLog, deleteLog, result>>

MainDiff ==
    /\ pc = "Diffing"
    /\ \E order \in Perms(DOMAIN source_events) :
         LET d == main_sync_diff(order, source_events, nextcloud_events)
         IN /\ events_to_upload' = d.upload
            /\ uids_to_delete' = d.del
            /\ skipLog' = d.skipped
            /\ upRes' = [i \in 1..Len(d.upload) |-> Pending]
    /\ pc' = "Uploading"
    /\ UNCHANGED <<inputVars, server, source_events, nextcloud_events,
                   delOrder, delRes, putLog, deleteLog, result>>

\* The error of a main.rs task names the UID and the status; the body is
\* written to the log only.
MainBadStatus(uid, s) == [st |-> "status", code |-> s, uid |-> uid]

main_upload_result(uid, resp) ==
    IF resp = NoResponse THEN TransportError
    ELSE IF IsUploadSuccess(resp.status) THEN Succeeded
    ELSE MainBadStatus(uid, resp.status)

main_delete_result(uid, resp) ==
    IF resp = NoResponse THEN TransportError
    ELSE IF IsDeleteSuccess(resp.status) THEN Succeeded
    ELSE MainBadStatus(uid, resp.status)

\* main.rs handle_uploads: the UID defaults to the empty string.
MainUploadTask(i) ==
    /\ i \in DOMAIN upRes
    /\ upRes[i] = Pending
    /\ \E resp \in RunResponses :
         LET event == events_to_upload[i]
             uid == IF get_uid(event) = None THEN <<>> ELSE Unwrap(get_uid(event))
             url == upload_url(nextcloud_calendar_url, uid)
         IN /\ putLog' = putLog \cup {[uid |-> uid, url |-> url]}
            /\ upRes' = [upRes EXCEPT ![i] = main_upload_result(uid, resp)]
            /\ server' = IF main_upload_result(uid, resp) = Succeeded
                          THEN Insert(server, url, event)
                          ELSE server
    /\ UNCHANGED <<inputVars, pc, diffVars, delOrder, delRes, deleteLog, result>>

HrefNotFound == [st |-> "nohref", code |-> 0]

\* get_href_by_uid: the hrefs of the resources whose event has this UID.
get_href_by_uid(uid) == {Href(k) : k \in {x \in DOMAIN server : get_uid(server[x]) = Some(uid)}}

\* main.rs handle_deletes task: REPORT for the href, then DELETE <url><href>.
\* No sibling task touches the same resource between the two requests, so the
\* pair is taken in one step.
MainDeleteTask(i) ==
    /\ i \in DOMAIN delRes
    /\ delRes[i] = Pending
    /\ LET uid == delOrder[i]
           hrefs == get_href_by_uid(uid)
       IN \/ /\ delRes' = [delRes EXCEPT ![i] = TransportError]
             /\ UNCHANGED <<server, deleteLog>>
          \/ /\ hrefs = {}
             /\ delRes' = [delRes EXCEPT ![i] = HrefNotFound]
             /\ UNCHANGED <<server, deleteLog>>
          \/ \E href \in hrefs, resp \in RunResponses :
               LET url == main_delete_url(nextcloud_url, href)
               IN /\ deleteLog' = deleteLog \cup {[uid |-> uid, url |-> url]}
                  /\ delRes' = [delRes EXCEPT ![i] = main_delete_result(uid, resp)]
                  /\ server' = IF main_delete_result(uid, resp) = Succeeded
                                THEN Remove(server, url)
                                ELSE server
    /\ UNCHANGED <<inputVars, pc, diffVars, upRes, delOrder, putLog, result>>

NextMain ==
    \/ BeginRun
    \/ FetchFail
    \/ MainExtract
    \/ MainDiff
    \/ \E i \in 1..MaxSrc : MainUploadTask(i)
    \/ JoinUploads
    \/ \E i \in 1..Cardinality(TgtKeys) : MainDeleteTask(i)
    \/ JoinDeletes
    \/ NextRun

SpecMain == Init /\ [][NextMain]_vars


\* ------------------------------------------- the two phases on their own
\* handle_uploads and handle_deletes are public functions: here each is called
\* directly, with any argument, and the response every task receives is kept.
ApiEvents == {MkEvent(u, Some("T1"), TRUE) : u \in {Some(<<"a">>), Some(<<"-">>), None}}

InitApi ==
    /\ source = <<>>
    /\ \E m \in Servers : server = Stored(m)
    /\ run = 1
    /\ source_events = EmptyMap
    /\ nextcloud_events = EmptyMap
    /\ skipLog = {}
    /\ putLog = {}
    /\ deleteLog = {}
    /\ result = None
    /\ previous = "none"
    /\ server0 = EmptyMap
    /\ plan = NoPlan
    /\ response = NoExchange
    /\ \/ /\ pc = "Uploading"
          /\ events_to_upload \in SeqsUpTo(ApiEvents, MaxSrc)
          /\ upRes = [i \in DOMAIN events_to_upload |-> Pending]
          /\ uids_to_delete = {}
          /\ delOrder = <<>>
          /\ delRes = <<>>
       \/ /\ pc = "Deleting"
          /\ events_to_upload = <<>>
          /\ upRes = <<>>
          /\ uids_to_delete \in SUBSET TgtKeys
          /\ delOrder \in Perms(uids_to_delete)
          /\ delRes = [i \in DOMAIN delOrder |-> Pending]

ApiUploadTask(i) ==
    \E resp \in Responses \cup {NoResponse} :
        /\ UploadStep(i, resp)
        /\ response' = IF get_uid(events_to_upload[i]) = None
                        THEN response
                        ELSE Exchange("upload", i, resp)

\* handle_uploads returns to its caller.
ApiJoinUploads ==
    /\ pc = "Uploading"
    /\ JoinReady(upRes)
    /\ result' = CollectError("upload", UploadUids, upRes)
    /\ pc' = IF result' # None THEN "Failed" ELSE "Done"
    /\ UNCHANGED <<inputVars, server, diffVars, upRes, delOrder, delRes, putLog, deleteLog>>

ApiDeleteTask(i) ==
    \E resp \in Responses \cup {NoResponse} :
        /\ DeleteStep(i, resp)
        /\ response' = Exchange("delete", i, resp)

NextApi ==
    \/ \E i \in 1..MaxSrc : ApiUploadTask(i)
    \/ ApiJoinUploads
    \/ \E i \in 1..Cardinality(TgtKeys) : ApiDeleteTask(i)
    \/ JoinDeletes

SpecApi == InitApi /\ [][NextApi]_vars

\* ------------------------------------------------ delete_synced_events
\* The library's second entry point: it is handed the parsed target calendar
\* and removes what the tool has put there. server0 keeps the collection as it
\* was when the call was made.
InitPurge ==
    /\ source = <<>>
    /\ \E m \in Servers : server = Stored(m)
    /\ server0 = server
    /\ pc = "Purging"
    /\ run = 1
    /\ source_events = EmptyMap
    /\ nextcloud_events = EmptyMap
    /\ events_to_upload = <<>>
    /\ uids_to_delete = {}
    /\ skipLog = {}
    /\ upRes = <<>>
    /\ delOrder = <<>>
    /\ delRes = <<>>
    /\ putLog = {}
    /\ deleteLog = {}
    /\ result = None
    /\ previous = "none"
    /\ plan = NoPlan
    /\ response = NoExchange

\* delete_synced_events up to the point where handle_deletes has spawned its
\* tasks (none, and an immediate Ok, when the set is empty).
delete_synced_events ==
    /\ pc = "Purging"
    /\ nextcloud_events' = extract_events(Export(server), FALSE)
    /\ uids_to_delete' = get_synced_uids(nextcloud_events')
    /\ \E order \in Perms(uids_to_delete') :
         /\ delOrder' = order
         /\ delRes' = [i \in DOMAIN order |-> Pending]
    /\ pc' = "Deleting"
    /\ UNCHANGED <<inputVars, server, source_events, events_to_upload, skipLog,
                   upRes, putLog, deleteLog, result>>

NextPurge ==
    \/ delete_synced_events
    \/ \E i \in 1..Cardinality(TgtKeys) : DeleteTask(i)
    \/ JoinDeletes

SpecPurge == InitPurge /\ [][NextPurge]_vars

\* ------------------------------------------------ extraction on its own
\* process_event and extract_events applied to any calendar document: the
\* document is read as the source (process_events = true), everything read is
\* stored and read back as the next run reads the target, or the document is
\* read as the target export (process_events = false).
RawUids == {<<>>, <<"/">>, <<"a">>, <<"-">>, <<"%">>, <<"a", "/">>, <<"%", "2", "F">>}
RawComponents ==
    {MkEvent(Some(u), None, sy) : u \in RawUids, sy \in BOOLEAN}
        \cup {MkEvent(None, None, FALSE), OtherComponent}

\* The collection after each event of the set has been PUT to its URL.
Uploaded(events) ==
    [url \in {upload_url(nextcloud_calendar_url, k) : k \in DOMAIN events} |->
        events[CHOOSE k \in DOMAIN events : upload_url(nextcloud_calendar_url, k) = url]]

InitExtract ==
    /\ source \in SeqsUpTo(RawComponents, MaxSrc)
    /\ server = EmptyMap
    /\ pc = "Extracting"
    /\ run = 1
    /\ source_events = EmptyMap
    /\ nextcloud_events = EmptyMap
    /\ events_to_upload = <<>>
    /\ uids_to_delete = {}
    /\ skipLog = {}
    /\ upRes = <<>>
    /\ delOrder = <<>>
    /\ delRes = <<>>
    /\ putLog = {}
    /\ deleteLog = {}
    /\ result = None
    /\ previous = "none"
    /\ server0 = EmptyMap
    /\ plan = NoPlan
    /\ response = NoExchange

ExtractSource ==
    /\ pc = "Extracting"
    /\ source_events' = extract_events(source, TRUE)
    /\ pc' = "Extracted"
    /\ UNCHANGED <<inputVars, server, nextcloud_events, events_to_upload, uids_to_delete,
                   skipLog, upRes, delOrder, delRes, putLog, deleteLog, result>>

StoreAll ==
    /\ pc = "Extracted"
    /\ server' = Uploaded(source_events)
    /\ pc' = "Stored"
    /\ UNCHANGED <<inputVars, diffVars, upRes, delOrder, delRes, putLog, deleteLog, result>>

ReadBack ==
    /\ pc = "Stored"
    /\ nextcloud_events' = extract_events(Export(server), FALSE)
    /\ pc' = "ReadBack"
    /\ UNCHANGED <<inputVars, server, source_events, events_to_upload, uids_to_delete,
                   skipLog, upRes, delOrder, delRes, putLog, deleteLog, result>>

ExtractTarget ==
    /\ pc = "Extracting"
    /\ nextcloud_events' = extract_events(source, FALSE)
    /\ pc' = "TargetRead"
    /\ UNCHANGED <<inputVars, server, source_events, events_to_upload, uids_to_delete,
                   skipLog, upRes, delOrder, delRes, putLog, deleteLog, result>>

NextExtract ==
    \/ ExtractSource
    \/ StoreAll
    \/ ReadBack
    \/ ExtractTarget

SpecExtract == InitExtract /\ [][NextExtract]_vars

\* ------------------------------------------------- one run, scheduled
\* One sync run under the scheduling the program relies on: the tokio runtime
\* keeps polling the future of sync_calendar and every spawned task, and every
\* request that was sent comes back with a response or a transport error. A
\* step of the run that stays possible is therefore eventually taken.
RunStep ==
    \/ FetchFail
    \/ Extract
    \/ Diff
    \/ \E i \in 1..MaxSrc : UploadTask(i)
    \/ JoinUploads
    \/ \E i \in 1..Cardinality(TgtKeys) : DeleteTask(i)
    \/ JoinDeletes

NextLive ==
    \/ BeginRun
    \/ RunStep

\* Whether a run ends does not depend on how many instants the timestamps
\* range over: the feeds and targets of this specification use one.
InitLive ==
    /\ Init
    /\ \A i \in DOMAIN source :
         source[i].kind = "event" => get_last_modified(source[i]) # Some("T2")
    /\ \A url \in DOMAIN server : get_last_modified(server[url]) # Some("T2")

SpecLive == InitLive /\ [][NextLive]_vars /\ WF_vars(RunStep)

\* ---------------------------------------- the phases with fixed responses
\* The two phases of sync_calendar for a fixed diff result and a response that
\* is fixed per item beforehand: all that is left open is the order in which
\* the tasks of a phase run.
PlanResponses == {r \in RunResponses : r.status \in {0, 200, 404}}
OrderEvents == {MkEvent(Some(k), Some("T1"), TRUE) : k \in TgtKeys}

InitOrder ==
    /\ source = <<>>
    /\ \E m \in Servers : server = Stored(m)
    /\ server0 = server
    /\ plan \in [put : [TgtKeys -> PlanResponses], del : [TgtKeys -> PlanResponses]]
    /\ pc = "Uploading"
    /\ run = 1
    /\ source_events = EmptyMap
    /\ nextcloud_events = EmptyMap
    /\ events_to_upload \in
          {es \in SeqsUpTo(OrderEvents, MaxSrc) :
              \A i, j \in DOMAIN es : i # j => get_uid(es[i]) # get_uid(es[j])}
    /\ upRes = [i \in DOMAIN events_to_upload |-> Pending]
    /\ uids_to_delete \in
          SUBSET {k \in TgtKeys :
                    /\ \A i \in DOMAIN events_to_upload : get_uid(events_to_upload[i]) # Some(k)
                    /\ delete_url(nextcloud_calendar_url, k) \in DOMAIN server
                    /\ IsSynced(server[delete_url(nextcloud_calendar_url, k)])}
    /\ skipLog = {}
    /\ delOrder = <<>>
    /\ delRes = <<>>
    /\ putLog = {}
    /\ deleteLog = {}
    /\ result = None
    /\ previous = "none"
    /\ response = NoExchange

PlannedUploadTask(i) ==
    /\ i \in DOMAIN events_to_upload
    /\ UploadStep(i, plan.put[Unwrap(get_uid(events_to_upload[i]))])
    /\ UNCHANGED response

PlannedDeleteTask(i) ==
    /\ i \in DOMAIN delOrder
    /\ DeleteStep(i, plan.del[delOrder[i]])
    /\ UNCHANGED response

NextOrder ==
    \/ \E i \in 1..MaxSrc : PlannedUploadTask(i)
    \/ JoinUploads
    \/ \E i \in 1..Cardinality(TgtKeys) : PlannedDeleteTask(i)
    \/ JoinDeletes

SpecOrder == InitOrder /\ [][NextOrder]_vars

\* ------------------------------------------------------------ properties
\* The diff of the current run has been computed.
HasDiff == pc \in {"Uploading", "Deleting", "Done"}
FailedIn(phase) == pc = "Failed" /\ \E e \in result : e.phase = phase
RequestUids(log) == {r.uid : r \in log}
\* The resource that holds the event of this UID: <collection><uid>.ics.
ResourceOf(uid) == nextcloud_calendar_url \o uid \o <<".ics">>
UploadedEvents == {events_to_upload[i] : i \in DOMAIN events_to_upload}
BothPresentEqual(a, b) ==
    \E t \in Instants : get_last_modified(a) = Some(t) /\ get_last_modified(b) = Some(t)

\* C1 Ownership safety: the retire set computed by calculate_diff contains no
\* UID whose target event lacks the X-SYNCED marker, whatever the source holds.
C1_OwnershipSafety ==
    HasDiff =>
        \A uid \in DOMAIN nextcloud_events :
            ~IsSynced(nextcloud_events[uid]) => uid \notin uids_to_delete

C1_Witness ==
    /\ HasDiff
    /\ uids_to_delete # {}
    /\ \E uid \in DOMAIN nextcloud_events :
         ~IsSynced(nextcloud_events[uid]) /\ uid \notin DOMAIN source_events

\* C2 In a run of the command-line program no DELETE is sent for a target
\* event that does not carry the X-SYNCED marker.
C2_MainNeverDeletesUnmanaged ==
    \A r \in deleteLog :
        r.uid \in DOMAIN nextcloud_events => IsSynced(nextcloud_events[r.uid])

\* C3 Retention on presence: no key of the source set is in the retire set,
\* whether or not timestamp or content differ between source and target.
C3_RetentionOnPresence ==
    HasDiff => \A uid \in DOMAIN source_events : uid \notin uids_to_delete

C3_Witness ==
    /\ HasDiff
    /\ \E uid \in DOMAIN source_events \cap DOMAIN nextcloud_events :
         /\ IsSynced(nextcloud_events[uid])
         /\ ~BothPresentEqual(source_events[uid], nextcloud_events[uid])
         /\ source_events[uid] \in UploadedEvents

\* C4 The upload set is exact: a source event is uploaded iff its UID is not
\* a target key or should_skip is false for the pair; an event present in both
\* sets with equal present timestamps is never uploaded, and with an empty
\* target every source event is uploaded.
C4_UploadSetExact ==
    HasDiff =>
        /\ \A uid \in DOMAIN source_events :
             source_events[uid] \in UploadedEvents
               <=> \/ uid \notin DOMAIN nextcloud_events
                   \/ ~should_skip(source_events[uid], nextcloud_events[uid])
        /\ UploadedEvents \subseteq {source_events[uid] : uid \in DOMAIN source_events}
        /\ \A uid \in DOMAIN source_events \cap DOMAIN nextcloud_events :
             BothPresentEqual(source_events[uid], nextcloud_events[uid])
               => source_events[uid] \notin UploadedEvents
        /\ nextcloud_events = EmptyMap
             => UploadedEvents = {source_events[uid] : uid \in DOMAIN source_events}

C4_Witness ==
    /\ HasDiff
    /\ \E u, v \in DOMAIN source_events :
         /\ u \in DOMAIN nextcloud_events
         /\ BothPresentEqual(source_events[u], nextcloud_events[u])
         /\ source_events[u] \notin UploadedEvents
         /\ source_events[v] \in UploadedEvents

\* C5 The retire set is complete: every marked target UID that is not a source
\* key is retired; with an empty source every marked target event is retired.
C5_RetireSetComplete ==
    HasDiff =>
        /\ \A uid \in DOMAIN nextcloud_events :
             (IsSynced(nextcloud_events[uid]) /\ uid \notin DOMAIN source_events)
               => uid \in uids_to_delete
        /\ source_events = EmptyMap
             => uids_to_delete = {uid \in DOMAIN nextcloud_events : IsSynced(nextcloud_events[uid])}

C5_Witness ==
    /\ HasDiff
    /\ source_events = EmptyMap
    /\ Cardinality(uids_to_delete) = 2

\* C6 Skip correctness: a pair is skipped iff both events carry LAST-MODIFIED
\* and the two instants are equal; not when both are missing, when one is
\* missing, or when both are present and differ.
C6_SkipCorrect ==
    HasDiff =>
        \A uid \in DOMAIN source_events \cap DOMAIN nextcloud_events :
            uid \in skipLog
              <=> /\ get_last_modified(source_events[uid]) # None
                  /\ get_last_modified(nextcloud_events[uid]) # None
                  /\ get_last_modified(source_events[uid]) = get_last_modified(nextcloud_events[uid])

C6_Witness ==
    /\ HasDiff
    /\ \E u, v \in DOMAIN source_events \cap DOMAIN nextcloud_events :
         /\ u \in skipLog
         /\ v \notin skipLog
         /\ get_last_modified(source_events[v]) = None
         /\ get_last_modified(nextcloud_events[v]) = None

PreviousRunSucceeded == run > 1 /\ previous = "Done"

\* C7 (as stated) Idempotence: after a run in which every request succeeded, a
\* second run on the unchanged source computes an empty diff, for every source.
C7_IdempotentAnySource ==
    (HasDiff /\ PreviousRunSucceeded) =>
        events_to_upload = <<>> /\ uids_to_delete = {}

\* C7 (amended) Idempotence holds when every event of the source set carries a
\* LAST-MODIFIED timestamp.
C7_IdempotentTimestamped ==
    (/\ HasDiff
     /\ PreviousRunSucceeded
     /\ \A uid \in DOMAIN source_events : get_last_modified(source_events[uid]) # None)
    => events_to_upload = <<>> /\ uids_to_delete = {}

C7_Witness ==
    /\ HasDiff
    /\ PreviousRunSucceeded
    /\ Cardinality(DOMAIN source_events) = 2
    /\ \A uid \in DOMAIN source_events : get_last_modified(source_events[uid]) # None
    /\ skipLog = DOMAIN source_events

\* C8 Partial failure isolation: when the upload phase reports failure every
\* upload task was issued and has finished, and each successful upload is
\* stored on the target; a failing task never cancels a sibling.
C8_PartialFailureIsolation ==
    FailedIn("upload") =>
        /\ AllSettled(upRes)
        /\ \A i \in DOMAIN upRes :
             /\ Unwrap(UploadUids[i]) \in RequestUids(putLog)
             /\ upRes[i] = Succeeded
                  => /\ ResourceOf(Unwrap(UploadUids[i])) \in DOMAIN server
                     /\ server[ResourceOf(Unwrap(UploadUids[i]))] = events_to_upload[i]

C8_Witness ==
    /\ FailedIn("upload")
    /\ \E i, j \in DOMAIN upRes :
         /\ upRes[i] = Succeeded
         /\ upRes[j] \notin {Succeeded, Pending}
         /\ ResourceOf(Unwrap(UploadUids[i])) \in DOMAIN server
         /\ server[ResourceOf(Unwrap(UploadUids[i]))] = events_to_upload[i]

FailingUids(uids, res) == {uids[i] : i \in Failing(res)}
ReportedUids == {e.uid : e \in result}

\* C9 The error returned by a failed phase identifies every failing UID of
\* that phase, not only the first failure.
C9_AggregateErrorComplete ==
    /\ FailedIn("upload") => ReportedUids = FailingUids(UploadUids, upRes)
    /\ FailedIn("delete") => ReportedUids = FailingUids(DeleteUids, delRes)

\* C10 No false success: sync_calendar returns success only if every PUT and
\* every DELETE of the run ended in a success outcome.
C10_NoFalseSuccess ==
    pc = "Done" =>
        /\ result = None
        /\ \A i \in DOMAIN upRes : upRes[i] = Succeeded
        /\ \A i \in DOMAIN delRes : delRes[i] = Succeeded
        /\ RequestUids(putLog) = {Unwrap(UploadUids[i]) : i \in DOMAIN upRes}
        /\ RequestUids(deleteLog) = {delOrder[i] : i \in DOMAIN delRes}

C10_Witness ==
    /\ pc = "Done"
    /\ putLog # {}
    /\ deleteLog # {}

\* C11 (phase ordering): no DELETE request is issued before every upload task
\* of the run has settled.
C11_PhaseOrdering == deleteLog # {} => AllSettled(upRes)

C11_Witness ==
    /\ deleteLog # {}
    /\ upRes # <<>>
    /\ AllSettled(upRes)
    /\ putLog # {}

\* C12 (disjointness): the UIDs of the events of events_to_upload are disjoint
\* from uids_to_delete, so no run sends both a PUT and a DELETE for the same
\* UID (nor for the same resource).
C12_Disjoint ==
    /\ \A i \in DOMAIN events_to_upload :
         UploadUids[i] # None => Unwrap(UploadUids[i]) \notin uids_to_delete
    /\ RequestUids(putLog) \cap RequestUids(deleteLog) = {}
    /\ {r.url : r \in putLog} \cap {r.url : r \in deleteLog} = {}

C12_Witness ==
    /\ pc = "Done"
    /\ putLog # {}
    /\ deleteLog # {}
    /\ \E r \in putLog : r.uid \in DOMAIN nextcloud_events

C14_DeleteOutcome ==
    /\ (response.phase = "delete" /\ response.status # 0) =>
          LET i == response.task
          IN /\ delRes[i] = Succeeded <=> response.status \in {200, 204}
             /\ response.status \notin {200, 204} =>
                  /\ i \in Failing(delRes)
                  /\ delRes[i].uid = delOrder[i]
                  /\ delRes[i].code = response.status
                  /\ delRes[i].body = response.body
    /\ (pc \in {"Done", "Failed"} /\ Failing(delRes) # {}) =>
          /\ pc = "Failed"
          /\ \E e \in result : e.phase = "delete"

C14_Witness ==
    /\ response.phase = "delete"
    /\ response.status = 201
    /\ pc = "Failed"
    /\ \E i \in DOMAIN delRes : delRes[i] = Succeeded

\* C15 (not-found on delete): a DELETE answered with not-found is not counted
\* as a failure of its task, and the call can still complete successfully.
C15_NotFoundTolerated ==
    (response.phase = "delete" /\ response.status = 404) =>
        /\ response.task \notin Failing(delRes)
        /\ (Failing(delRes) \subseteq {response.task} => pc # "Failed")

\* C16 (empty phases): when events_to_upload is empty the run sends no PUT,
\* and when uids_to_delete is empty the run sends no DELETE.
C16_EmptyPhasesSilent ==
    /\ events_to_upload = <<>> => putLog = {}
    /\ uids_to_delete = {} => deleteLog = {}

C16_Witness ==
    /\ pc = "Done"
    /\ events_to_upload = <<>>
    /\ uids_to_delete = {}
    /\ DOMAIN source_events # {}
    /\ \E uid \in DOMAIN nextcloud_events : IsSynced(nextcloud_events[uid])

\* C18 (fetch failure): when the download or the parse of the source document
\* or of the target export fails, the run fails, no diff is computed and no
\* PUT or DELETE is sent.
C18_FetchFailureAborts ==
    response.phase \in {"source", "target"} =>
        /\ pc = "Failed"
        /\ \E e \in result : e.phase = "fetch" /\ e.doc = response.phase
        /\ source_events = EmptyMap /\ nextcloud_events = EmptyMap
        /\ events_to_upload = <<>> /\ uids_to_delete = {} /\ skipLog = {}
        /\ upRes = <<>> /\ delRes = <<>>
        /\ putLog = {} /\ deleteLog = {}

C18_Witness ==
    /\ response.phase = "target"
    /\ response.body = <<"parse">>
    /\ pc = "Failed"
    /\ source # <<>>
    /\ DOMAIN server # {}

\* The steps of the run state machine.
RunTransitions ==
    {<<"Idle", "Extracting">>, <<"Extracting", "Diffing">>, <<"Diffing", "Uploading">>,
     <<"Uploading", "Deleting">>, <<"Deleting", "Done">>,
     <<"Extracting", "Failed">>, <<"Uploading", "Failed">>, <<"Deleting", "Failed">>}

\* C19 (run state machine): within a run the position only moves along Idle,
\* Extracting, Diffing, Uploading, Deleting, Done; Failed is entered only from
\* Extracting, Uploading or Deleting; PUTs are sent only while Uploading and
\* DELETEs only while Deleting; Done and Failed are terminal: nothing is sent
\* and nothing changes after either, until the program is started again.
C19_RunStateMachine ==
    [][ /\ (pc' # pc /\ run' = run) => <<pc, pc'>> \in RunTransitions
        /\ putLog' # putLog /\ run' = run => pc = "Uploading"
        /\ deleteLog' # deleteLog /\ run' = run => pc = "Deleting"
        /\ pc \in {"Done", "Failed"} =>
              /\ server' = server
              /\ run' = run + 1 /\ pc' = "Idle" ]_vars

C19_Witness ==
    /\ run > 1
    /\ previous = "Failed"
    /\ pc = "Done"
    /\ putLog # {}
    /\ deleteLog # {}

\* The target mirrors the source: every source event is stored under its UID
\* (as uploaded, or left alone by the skip rule), and no stored event that
\* carries the marker has a UID the source lacks.
Mirrors ==
    /\ \A uid \in DOMAIN source_events :
         /\ ResourceOf(uid) \in DOMAIN server
         /\ \/ server[ResourceOf(uid)] = source_events[uid]
            \/ uid \in skipLog
    /\ \A url \in DOMAIN server :
         IsSynced(server[url]) =>
            \E uid \in DOMAIN source_events : get_uid(server[url]) = Some(uid)

\* C20 (recovery): after a run that was interrupted when any subset of its
\* PUTs and DELETEs had taken effect, a following run that is not interrupted
\* and in which every request succeeds leaves the target with every source
\* event present and with no managed event whose UID the source lacks.
C20_RecoveryAfterInterruption ==
    (previous = "Interrupted" /\ pc = "Done") => Mirrors

C20_Witness ==
    /\ previous = "Interrupted"
    /\ pc = "Done"
    /\ skipLog # {}
    /\ putLog # {}
    /\ \E uid \in skipLog : server[ResourceOf(uid)] = source_events[uid]

\* C21 (provenance of the diff): every event of events_to_upload is the event
\* the source set holds under that event's UID, and every UID of
\* uids_to_delete is a key of the target set.
C21_DiffProvenance ==
    HasDiff =>
        /\ \A i \in DOMAIN events_to_upload :
             /\ UploadUids[i] # None
             /\ Unwrap(UploadUids[i]) \in DOMAIN source_events
             /\ source_events[Unwrap(UploadUids[i])] = events_to_upload[i]
        /\ uids_to_delete \subseteq DOMAIN nextcloud_events

C21_Witness ==
    /\ HasDiff
    /\ uids_to_delete # {}
    /\ \E i \in DOMAIN events_to_upload :
         /\ Unwrap(UploadUids[i]) \in DOMAIN nextcloud_events
         /\ nextcloud_events[Unwrap(UploadUids[i])] # events_to_upload[i]

\* The events of a calendar document that have a UID.
EventsWithUid(calendar) ==
    {calendar[i] : i \in {j \in DOMAIN calendar :
                            calendar[j].kind = "event" /\ get_uid(calendar[j]) # None}}
HasSlash(str) == \E i \in DOMAIN str : str[i] = "/"

\* C22 (single path segment): for every raw UID, one that contains / included,
\* the UID process_event produces contains no /, so the upload path
\* <base><normalized-uid>.ics adds no path level below the collection.
C22_SinglePathSegment ==
    \A k \in DOMAIN source_events :
        /\ ~HasSlash(k)
        /\ get_uid(source_events[k]) = Some(k)
        /\ LET url == upload_url(nextcloud_calendar_url, k)
           IN \A i \in (Len(nextcloud_calendar_url) + 1)..Len(url) : url[i] # "/"

C22_Witness ==
    /\ pc = "Extracted"
    /\ \E c \in EventsWithUid(source) : Unwrap(get_uid(c)) = <<"a", "/">>
    /\ <<"a", "-">> \in DOMAIN source_events

\* C23 (identity is stable): an event uploaded from a source event is read
\* back from the target under exactly the key the source event has in the
\* source set, so the two are matched as the same event.
C23_IdentityStable ==
    pc = "ReadBack" =>
        \A k \in DOMAIN source_events :
            /\ k \in DOMAIN nextcloud_events
            /\ nextcloud_events[k] = source_events[k]

C23_Witness ==
    /\ pc = "ReadBack"
    /\ <<"%", "2", "5">> \in DOMAIN nextcloud_events
    /\ <<"-">> \in DOMAIN nextcloud_events

\* C24 (unaddressable events are excluded): extract_events puts into the set no
\* event without UID and no event whose UID normalizes to the empty string,
\* so no key of an event set is the empty string.
C24_NoUnaddressableKey ==
    /\ \A k \in DOMAIN source_events : k # <<>> /\ get_uid(source_events[k]) # None
    /\ \A k \in DOMAIN nextcloud_events : k # <<>> /\ get_uid(nextcloud_events[k]) # None

\* C28 (target read-back is untouched): extract_events with process_events =
\* false returns the target events unmodified, each under its stored UID;
\* normalization and tagging are applied to source events only, once.
C28_TargetReadUntouched ==
    /\ pc = "TargetRead" =>
          /\ \A k \in DOMAIN nextcloud_events :
               /\ nextcloud_events[k] \in EventsWithUid(source)
               /\ get_uid(nextcloud_events[k]) = Some(k)
          /\ \A c \in EventsWithUid(source) : Unwrap(get_uid(c)) \in DOMAIN nextcloud_events
    /\ pc = "Extracted" =>
          \A k \in DOMAIN source_events :
              \E c \in EventsWithUid(source) :
                  /\ k = replace(encode(Unwrap(get_uid(c))), <<"%", "2", "F">>, <<"-">>)
                  /\ source_events[k] = [c EXCEPT !.uid = Some(k), !.synced = TRUE]

C28_Witness ==
    /\ pc = "TargetRead"
    /\ <<"%">> \in DOMAIN nextcloud_events
    /\ <<"a", "/">> \in DOMAIN nextcloud_events
    /\ ~IsSynced(nextcloud_events[<<"%">>])

C26_UploadFailureBlocksDeletes ==
    Failing(upRes) # {} =>
        /\ deleteLog = {}
        /\ delRes = <<>>
        /\ pc \in {"Uploading", "Failed"}
        /\ pc = "Failed" => \E e \in result : e.phase = "upload"

C26_Witness ==
    /\ FailedIn("upload")
    /\ uids_to_delete # {}
    /\ deleteLog = {}
    /\ putLog # {}

\* The target events no run owns: no marker, and a UID no source event has.
Foreign(url) ==
    /\ ~IsSynced(server[url])
    /\ get_uid(server[url]) # None
    /\ Unwrap(get_uid(server[url])) \notin DOMAIN extract_events(source, TRUE)

\* C29 (frame of a sync run): across any sequence of runs, a target event
\* without the marker whose UID is in no source set is never the subject of a
\* PUT or a DELETE and stays on the target unchanged: no step of a run sends
\* a request to its resource or changes it.
C29_Frame ==
    [][ \/ server' = server /\ putLog' \subseteq putLog /\ deleteLog' \subseteq deleteLog
        \/ \A url \in DOMAIN server :
          Foreign(url) =>
             /\ url \in DOMAIN server'
             /\ server'[url] = server[url]
             /\ \A r \in (putLog' \ putLog) \cup (deleteLog' \ deleteLog) : r.url # url ]_vars

C29_Witness ==
    /\ run > 1
    /\ pc = "Done"
    /\ putLog # {}
    /\ \E url \in DOMAIN server : Foreign(url)

\* What the fixed responses determine, whatever the order of the tasks.
PutOk == {i \in DOMAIN events_to_upload :
            plan.put[Unwrap(get_uid(events_to_upload[i]))].status \in {200, 201, 204}}
DelOk == {k \in uids_to_delete : plan.del[k].status \in {200, 204}}
UploadsFail == PutOk # DOMAIN events_to_upload
AfterUploads ==
    [url \in DOMAIN server0 \cup {ResourceOf(Unwrap(get_uid(events_to_upload[i]))) : i \in PutOk} |->
        IF \E i \in PutOk : ResourceOf(Unwrap(get_uid(events_to_upload[i]))) = url
        THEN events_to_upload[CHOOSE i \in PutOk :
                                ResourceOf(Unwrap(get_uid(events_to_upload[i]))) = url]
        ELSE server0[url]]
AfterDeletes ==
    [url \in DOMAIN AfterUploads \ {ResourceOf(k) : k \in DelOk} |-> AfterUploads[url]]

\* C27 (interleaving independence): for fixed events_to_upload, uids_to_delete
\* and fixed responses per item, every order in which the tasks of a phase
\* run ends in the same target state and the same success or failure.
C27_InterleavingIndependence ==
    pc \in {"Done", "Failed"} =>
        /\ server = IF UploadsFail THEN AfterUploads ELSE AfterDeletes
        /\ pc = IF UploadsFail \/ DelOk # uids_to_delete THEN "Failed" ELSE "Done"

C27_Witness ==
    /\ pc = "Failed"
    /\ Len(events_to_upload) = 2
    /\ Cardinality(PutOk) = 1
    /\ server # server0

\* C30 (termination): when every request that was sent comes back, every sync
\* run reaches Done or Failed, and a phase is left only after all of its
\* tasks have finished.
C30_Termination ==
    /\ (pc = "Extracting") ~> (pc \in {"Done", "Failed"})
    /\ [][ /\ (pc = "Uploading" /\ pc' # "Uploading" => AllSettled(upRes))
           /\ (pc = "Deleting" /\ pc' # "Deleting" => AllSettled(delRes)) ]_vars

C30_Witness ==
    /\ pc = "Done"
    /\ upRes # <<>>
    /\ delRes # <<>>
    /\ AllSettled(upRes)
    /\ AllSettled(delRes)

\* The raw UIDs of the events of a calendar document.
RawUidsOf(calendar) == {Unwrap(get_uid(c)) : c \in EventsWithUid(calendar)}

\* C31 (normalization is injective on source UIDs): two source events with
\* different raw UIDs never get the same normalized key, so the source event
\* set has one entry per distinct raw UID of the feed.
C31_NormalizationInjective ==
    pc = "Extracted" =>
        /\ Cardinality(DOMAIN source_events) = Cardinality(RawUidsOf(source))
        /\ \A u, v \in RawUidsOf(source) :
              u # v => get_uid(process_event(MkEvent(Some(u), None, FALSE)))
                          # get_uid(process_event(MkEvent(Some(v), None, FALSE)))

\* The resource each task of the run addresses.
UploadUrls ==
    [i \in DOMAIN events_to_upload |->
        upload_url(nextcloud_calendar_url, Unwrap(get_uid(events_to_upload[i])))]
DeleteUrls == [i \in DOMAIN delOrder |-> delete_url(nextcloud_calendar_url, delOrder[i])]

\* C32 (no two tasks of one run address the same resource): events_to_upload
\* holds at most one event per UID and uids_to_delete is a set, so no two
\* upload tasks PUT to the same path and no two delete tasks DELETE the same
\* path.
C32_NoSharedResource ==
    /\ \A i, j \in DOMAIN UploadUrls : i # j => UploadUrls[i] # UploadUrls[j]
    /\ \A i, j \in DOMAIN DeleteUrls : i # j => DeleteUrls[i] # DeleteUrls[j]
    /\ Cardinality(putLog) = Cardinality({i \in DOMAIN upRes : upRes[i] # Pending})
    /\ Cardinality(deleteLog) = Cardinality({i \in DOMAIN delRes : delRes[i] # Pending})

C32_Witness ==
    \/ /\ Len(events_to_upload) = 2
       /\ Cardinality(putLog) = 2
    \/ /\ Len(delOrder) = 2
       /\ Cardinality(deleteLog) = 2

\* The UIDs of the events that carried the marker when the call was made.
MarkedAtCall == {Unwrap(get_uid(server0[url])) : url \in {u \in DOMAIN server0 : IsSynced(server0[u])}}

\* C33 (delete_synced_events): a DELETE is issued for exactly the target UIDs
\* whose event carries X-SYNCED, none for an unmarked event, no PUT at all,
\* and when no target event is marked no request is made and the call
\* succeeds.
C33_DeleteSyncedEvents ==
    /\ putLog = {}
    /\ RequestUids(deleteLog) \subseteq MarkedAtCall
    /\ \A r \in deleteLog : r.url = ResourceOf(r.uid)
    /\ pc \in {"Done", "Failed"} => RequestUids(deleteLog) = MarkedAtCall
    /\ (pc \in {"Done", "Failed"} /\ MarkedAtCall = {}) => (pc = "Done" /\ deleteLog = {})

C33_Witness ==
    /\ pc = "Done"
    /\ deleteLog # {}
    /\ \E url \in DOMAIN server0 : ~IsSynced(server0[url]) /\ url \in DOMAIN server

\* The upload tasks whose event has no UID.
NoUidTasks == {i \in DOMAIN events_to_upload : get_uid(events_to_upload[i]) = None}

====
